---- MODULE Spec2Model ----
(***************************************************************************)
(* simple-maps: the Cartes.io client (payload validation, request          *)
(* construction, response normalisation) and the command-line frontend     *)
(* that feeds it.  The repository holds two revisions of the package:      *)
(*   current  src/src/simple_maps/{util,cartes,cli}.py   (httpx, pydantic) *)
(*   legacy   src/simple_maps/{util,cartes,cli}.py       (requests)        *)
(* One invocation runs at a time: a library call or a CLI command walks    *)
(* idle -> construct -> client -> request -> returned (-> exited).         *)
(*                                                                         *)
(* Python values are records [ty, n, s]: the type tag, the numeric value   *)
(* (floats are modelled by whole degrees/units) and the string value.      *)
(* Mappings (dict) are functions from a finite set of keys.                *)
(***************************************************************************)
EXTENDS Integers, Sequences, FiniteSets, TLC

VARIABLES
    pc,        \* position of the running invocation
    op,        \* the operation invoked
    via,       \* "lib" (library caller) or "cli" (typer command)
    cargs,     \* routing arguments: map_id, marker_id, api_key and the tokens
    kwargs,    \* keyword arguments of the payload constructor (cls) or, with
               \* cls "none", the remaining arguments of the client method
    cliParse,  \* outcome of typer's option parsing: "n/a", "accepted", "rejected"
    payload,   \* the constructed payload object
    call,      \* the arguments request_json was called with
    sent,      \* the HTTP requests issued by this invocation, in order
    net,       \* what the network answered
    result,    \* what the operation returned or raised
    exit,      \* what the CLI command printed and its exit code
    assign,    \* what an attempted assignment to a payload field did
    memo       \* an earlier invocation of this process, kept for comparison

vars == <<pc, op, via, cargs, kwargs, cliParse, payload, call, sent, net, result, exit,
          assign, memo>>

---------------------------------------------------------------------------
(* Bounds of the model *)

\* number of distinct keys a caller's parameter mapping may hold
MaxKeys == 2
\* how many whole units beyond each coordinate bound are explored
Margin == 1
\* how many telemetry fields one location payload supplies
MaxTelemetry == 2

---------------------------------------------------------------------------
(* Program constants *)

LAT_GE == -90
LAT_LE == 90
LNG_GE == -180
LNG_LE == 180
ZOOM_GE == 0
ZOOM_LE == 20
HEADING_GE == 0
HEADING_LT == 360
PITCH_GE == -90
PITCH_LE == 90
ROLL_GE == -180
ROLL_LE == 180
SPEED_GE == 0

CLI_LAT_MIN == -90
CLI_LAT_MAX == 90
CLI_LNG_MIN == -180
CLI_LNG_MAX == 180
CLI_ZOOM_MIN == 0
CLI_ZOOM_MAX == 20
CLI_HEADING_MIN == 0
CLI_HEADING_MAX == 359
CLI_PITCH_MIN == -90
CLI_PITCH_MAX == 90
CLI_ROLL_MIN == -180
CLI_ROLL_MAX == 180
CLI_STATIC_ZOOM_MIN == 2
CLI_STATIC_ZOOM_MAX == 19

LEGACY_CLI_LAT_MIN == -90
LEGACY_CLI_LAT_MAX == 90
LEGACY_CLI_LNG_MIN == -90
LEGACY_CLI_LNG_MAX == 90

DEFAULT_TIMEOUT == 10

base_url == "https://cartes.io/api"

---------------------------------------------------------------------------
(* Python values *)

None_ == [ty |-> "NoneType", n |-> 0, s |-> ""]
PyBool(b) == [ty |-> "bool", n |-> IF b THEN 1 ELSE 0, s |-> ""]
PyInt(i) == [ty |-> "int", n |-> i, s |-> ""]
PyFloat(x) == [ty |-> "float", n |-> x, s |-> ""]
PyStr(t) == [ty |-> "str", n |-> 0, s |-> t]
\* a list: its length and its items, comma-separated
PyList(len, items) == [ty |-> "list", n |-> len, s |-> items]
\* an argument the caller left out of the call
Unspecified == [ty |-> "unspecified", n |-> 0, s |-> ""]

IsNone(v) == v.ty = "NoneType"
\* Python truthiness: None, False, 0, 0.0 and "" are falsy
Truthy(v) == ~IsNone(v) /\ (v.n # 0 \/ v.s # "")

EmptyDict == [k \in {} |-> None_]
\* an optional mapping argument: None, or a dict
NoneMap == [isNone |-> TRUE, d |-> EmptyDict]
SomeMap(d) == [isNone |-> FALSE, d |-> d]
\* `m or {}`
OrEmpty(m) == IF m.isNone \/ DOMAIN m.d = {} THEN EmptyDict ELSE m.d

Dicts(keys, vals) == UNION {[K -> vals] : K \in SUBSET keys}

---------------------------------------------------------------------------
(* What an operation returns or raises *)

NoResult ==
    [kind |-> "none", exc |-> "", errs |-> {}, method |-> "", url |-> "",
     status |-> 0, jtype |-> "", wrapped |-> FALSE, text |-> ""]

\* a returned JSON value of type jtype decoded from `text`; wrapped: it is the
\* synthetic object {"response": text}
Returned(jtype, wrapped, text) ==
    [NoResult EXCEPT !.kind = "return", !.jtype = jtype, !.wrapped = wrapped,
                     !.text = text]

\* a raised exception of class exc
Raised(exc) == [NoResult EXCEPT !.kind = "raise", !.exc = exc]

\* pydantic's ValidationError with its error entries ("field:type")
ValidationError(errs) == [Raised("ValidationError") EXCEPT !.errs = errs]

\* httpx.HTTPStatusError: carries the request (method, URL) and the response
HTTPStatusError(method, url, status) ==
    [Raised("HTTPStatusError") EXCEPT !.method = method, !.url = url,
                                      !.status = status]

---------------------------------------------------------------------------
(* The network: what one HTTP exchange can produce *)

Statuses == {200, 204, 301, 404, 500}

\* response bodies: a JSON object, a JSON array, JSON scalars, an empty body,
\* a non-JSON body and a truncated JSON body
Bodies == {"{\"id\": 1}", "[1, 2]", "\"pong\"", "3", "null", "", "<html>", "{\"id\": "}

NoNet == [kind |-> "none", status |-> 0, body |-> ""]

NetOutcomes ==
    {[kind |-> "response", status |-> st, body |-> b] : st \in Statuses, b \in Bodies}
    \cup {[kind |-> k, status |-> 0, body |-> ""] : k \in {"ConnectError", "TimeoutException"}}

\* response.json(): the decoded value's JSON type, or a JSONDecodeError
json_loads(text) ==
    CASE text = "{\"id\": 1}" -> [ok |-> TRUE, jtype |-> "object"]
      [] text = "[1, 2]" -> [ok |-> TRUE, jtype |-> "array"]
      [] text = "\"pong\"" -> [ok |-> TRUE, jtype |-> "string"]
      [] text = "3" -> [ok |-> TRUE, jtype |-> "number"]
      [] text = "null" -> [ok |-> TRUE, jtype |-> "null"]
      [] OTHER -> [ok |-> FALSE, jtype |-> "JSONDecodeError"]

---------------------------------------------------------------------------
(* util.py (current revision) *)

RequestType == {"get", "put", "post", "delete"}

\* request_type.upper()
Upper(request_type) ==
    CASE request_type = "get" -> "GET"
      [] request_type = "put" -> "PUT"
      [] request_type = "post" -> "POST"
      [] request_type = "delete" -> "DELETE"

\* faulty variant: drops every falsy value (`if v`), not only None
filter_falsy_values(data) ==
    LET d == OrEmpty(data)
    IN  [k \in {j \in DOMAIN d : Truthy(d[j])} |-> d[k]]

_filter_none_values(data) ==
    LET d == OrEmpty(data)
    IN  [k \in {j \in DOMAIN d : ~IsNone(d[j])} |-> d[k]]

DefaultHeaders == [k \in {"Content-Type", "Accept"} |-> "application/json"]

\* faulty variant: the defaults are one module-level dict that each call
\* updates in place, so the headers of an earlier call stay in it
build_headers_on_shared_defaults(extra_headers) ==
    LET earlier == memo.call.headers.d
        defaults == [k \in DOMAIN DefaultHeaders \cup DOMAIN earlier |->
                       IF k \in DOMAIN earlier THEN earlier[k] ELSE DefaultHeaders[k]]
    IN  IF ~extra_headers.isNone /\ DOMAIN extra_headers.d # {}
        THEN [k \in DOMAIN defaults \cup DOMAIN extra_headers.d |->
                IF k \in DOMAIN extra_headers.d THEN extra_headers.d[k]
                ELSE defaults[k]]
        ELSE defaults

\* faulty variant: a default wins over the caller's header of the same name
build_headers_defaults_win(extra_headers) ==
    IF ~extra_headers.isNone /\ DOMAIN extra_headers.d # {}
    THEN [k \in DOMAIN DefaultHeaders \cup DOMAIN extra_headers.d |->
            IF k \in DOMAIN DefaultHeaders THEN DefaultHeaders[k]
            ELSE extra_headers.d[k]]
    ELSE DefaultHeaders

_build_headers(extra_headers) ==
    IF ~extra_headers.isNone /\ DOMAIN extra_headers.d # {}
    THEN [k \in DOMAIN DefaultHeaders \cup DOMAIN extra_headers.d |->
            IF k \in DOMAIN extra_headers.d THEN extra_headers.d[k]
            ELSE DefaultHeaders[k]]
    ELSE DefaultHeaders

\* faulty variant: the fallback loses the body text
parse_json_response_losing_text(response) ==
    LET decoded == json_loads(response.body)
    IN  IF decoded.ok THEN Returned(decoded.jtype, FALSE, response.body)
        ELSE Returned("object", TRUE, "")

_parse_json_response(response) ==
    LET decoded == json_loads(response.body)
    IN  IF decoded.ok THEN Returned(decoded.jtype, FALSE, response.body)
        ELSE Returned("object", TRUE, response.body)

\* faulty variant: only 4xx and 5xx statuses raise
raises_for_error_status_only(response) == response.status >= 400

\* response.raise_for_status(): httpx raises for every status outside 2xx
raise_for_status(response) == ~(200 <= response.status /\ response.status <= 299)

NoCall ==
    [request_type |-> "none", url |-> "", headers |-> NoneMap, params |-> NoneMap,
     timeout |-> Unspecified]

\* faulty variant: the caller's timeout is ignored
timeout_always_default(timeout) == PyFloat(DEFAULT_TIMEOUT)

\* the parameter `timeout: float | None = 10.0` as bound for one call
timeout_parameter(timeout) ==
    IF timeout = Unspecified THEN PyFloat(DEFAULT_TIMEOUT) ELSE timeout

\* faulty variant: an empty parameter set gives no body (`cleaned_params or None`)
httpx_request_args_without_empty_body(c) ==
    LET cleaned_params == _filter_none_values(c.params)
        merged_headers == _build_headers(c.headers)
    IN  [lib |-> "httpx",
         method |-> Upper(c.request_type),
         url |-> c.url,
         headers |-> merged_headers,
         params |-> IF c.request_type = "get" THEN SomeMap(cleaned_params) ELSE NoneMap,
         json |-> IF c.request_type # "get" /\ DOMAIN cleaned_params # {}
                  THEN SomeMap(cleaned_params) ELSE NoneMap,
         timeout |-> timeout_parameter(c.timeout)]

\* the keyword arguments of httpx.request
httpx_request_args(c) ==
    LET cleaned_params == _filter_none_values(c.params)
        merged_headers == _build_headers(c.headers)
    IN  [lib |-> "httpx",
         method |-> Upper(c.request_type),
         url |-> c.url,
         headers |-> merged_headers,
         params |-> IF c.request_type = "get" THEN SomeMap(cleaned_params) ELSE NoneMap,
         json |-> IF c.request_type # "get" THEN SomeMap(cleaned_params) ELSE NoneMap,
         timeout |-> timeout_parameter(c.timeout)]

\* faulty variant: a failed exchange is tried once more
dispatch_with_retry(req, outcome) ==
    IF outcome.kind # "response" \/ raise_for_status(outcome)
    THEN <<req, req>> ELSE <<req>>

\* the requests the one httpx.request call of request_json puts on the wire
dispatch(req, outcome) == <<req>>

\* faulty variant: a transport failure is turned into a return value
request_json_result_hiding_transport_errors(c, outcome) ==
    IF outcome.kind # "response" THEN Returned("object", TRUE, "")
    ELSE IF raise_for_status(outcome)
         THEN HTTPStatusError(Upper(c.request_type), c.url, outcome.status)
         ELSE _parse_json_response(outcome)

\* faulty variant: the body is decoded before the status is looked at, and an
\* undecodable body takes the fallback
request_json_result_decoding_first(c, outcome) ==
    IF outcome.kind # "response" THEN Raised(outcome.kind)
    ELSE IF ~json_loads(outcome.body).ok THEN _parse_json_response(outcome)
    ELSE IF raise_for_status(outcome)
         THEN HTTPStatusError(Upper(c.request_type), c.url, outcome.status)
         ELSE _parse_json_response(outcome)

\* what request_json returns or raises once httpx.request has answered
request_json_result(c, outcome) ==
    IF outcome.kind # "response" THEN Raised(outcome.kind)
    ELSE IF raise_for_status(outcome)
         THEN HTTPStatusError(Upper(c.request_type), c.url, outcome.status)
         ELSE _parse_json_response(outcome)

---------------------------------------------------------------------------
(* util.py (legacy revision) *)

\* the arguments of requests.request: the parameters always travel as query
\* parameters, uncleaned, and no body is ever passed
requests_request_args(c) ==
    [lib |-> "requests",
     method |-> c.request_type,
     url |-> c.url,
     headers |-> IF c.headers.isNone THEN EmptyDict ELSE c.headers.d,
     params |-> c.params,
     json |-> NoneMap,
     timeout |-> None_]

\* requests' raise_for_status raises for 4xx and 5xx; the text is returned raw
legacy_request_json_result(c, outcome) ==
    IF outcome.kind # "response" THEN Raised(outcome.kind)
    ELSE IF 400 <= outcome.status /\ outcome.status < 600
         THEN [Raised("HTTPError") EXCEPT !.url = c.url, !.status = outcome.status]
         ELSE Returned("text", FALSE, outcome.body)

---------------------------------------------------------------------------
(* cartes.py: payload models *)

\* Annotated[float, Field(ge=..., le=...)]: the error types of a value
RangeErrors(v, ge, le) ==
    IF v.n < ge THEN {"greater_than_equal"}
    ELSE IF v.n > le THEN {"less_than_equal"}
    ELSE {}

\* faulty variant: the upper latitude bound is exclusive (lt=90)
LatitudeExclusive(v) ==
    IF v.n < LAT_GE THEN {"greater_than_equal"}
    ELSE IF v.n >= LAT_LE THEN {"less_than"}
    ELSE {}

Latitude(v) == RangeErrors(v, LAT_GE, LAT_LE)

Longitude(v) == RangeErrors(v, LNG_GE, LNG_LE)

\* an optional field: None is always accepted
Optional(v, errs) == IF IsNone(v) THEN {} ELSE errs

\* the error entries of one field
At(field, errs) == {field \o ":" \o e : e \in errs}

\* faulty variant: the Privacy enum lacks UNLISTED
PrivacyValues_without_unlisted == {"public", "private"}

PrivacyValues == {"public", "unlisted", "private"}
PermissionValues == {"yes", "no", "only_logged_in"}

EnumErrors(v, values) == IF v.s \in values THEN {} ELSE {"enum"}

MapCreateFields == {"title", "slug", "description", "privacy", "users_can_create_markers"}
MarkerCreateFields == {"map_token", "lat", "lng", "category", "category_name", "description"}
TelemetryFields == {"zoom", "elevation", "heading", "pitch", "roll", "speed"}
MarkerLocationFields == {"lat", "lng"} \cup TelemetryFields

\* field validation of MapCreatePayload
MapCreateFieldErrors(kw) ==
    At("privacy", Optional(kw["privacy"], EnumErrors(kw["privacy"], PrivacyValues)))
    \cup At("users_can_create_markers",
            Optional(kw["users_can_create_markers"],
                     EnumErrors(kw["users_can_create_markers"], PermissionValues)))

\* field validation of MarkerCreatePayload
MarkerCreateFieldErrors(kw) ==
    At("lat", Latitude(kw["lat"])) \cup At("lng", Longitude(kw["lng"]))

\* faulty variant: the marker is rejected unless both category fields are given
check_category_requires_both(f) ==
    IsNone(f["category"]) \/ IsNone(f["category_name"])

\* the model validator (mode="after"): TRUE when it raises
check_category_provided(f) ==
    IsNone(f["category"]) /\ IsNone(f["category_name"])

\* every error entry MarkerCreatePayload(**kw) reports: the after-validator
\* runs only when the fields validated
MarkerCreateErrors(kw) ==
    IF MarkerCreateFieldErrors(kw) # {} THEN MarkerCreateFieldErrors(kw)
    ELSE IF check_category_provided(kw) THEN {"__root__:value_error"}
    ELSE {}

\* faulty variant: the heading bound is inclusive (le=360)
MarkerLocationErrors_heading_inclusive(kw) ==
    At("lat", Latitude(kw["lat"])) \cup At("lng", Longitude(kw["lng"]))
    \cup At("zoom", Optional(kw["zoom"], RangeErrors(kw["zoom"], ZOOM_GE, ZOOM_LE)))
    \cup At("heading",
            Optional(kw["heading"], RangeErrors(kw["heading"], HEADING_GE, HEADING_LT)))
    \cup At("pitch", Optional(kw["pitch"], RangeErrors(kw["pitch"], PITCH_GE, PITCH_LE)))
    \cup At("roll", Optional(kw["roll"], RangeErrors(kw["roll"], ROLL_GE, ROLL_LE)))
    \cup At("speed",
            Optional(kw["speed"],
                     IF kw["speed"].n < SPEED_GE THEN {"greater_than_equal"} ELSE {}))

\* field validation of MarkerLocationPayload
MarkerLocationErrors(kw) ==
    At("lat", Latitude(kw["lat"])) \cup At("lng", Longitude(kw["lng"]))
    \cup At("zoom", Optional(kw["zoom"], RangeErrors(kw["zoom"], ZOOM_GE, ZOOM_LE)))
    \cup At("heading",
            Optional(kw["heading"],
                     IF kw["heading"].n < HEADING_GE THEN {"greater_than_equal"}
                     ELSE IF kw["heading"].n >= HEADING_LT THEN {"less_than"}
                     ELSE {}))
    \cup At("pitch", Optional(kw["pitch"], RangeErrors(kw["pitch"], PITCH_GE, PITCH_LE)))
    \cup At("roll", Optional(kw["roll"], RangeErrors(kw["roll"], ROLL_GE, ROLL_LE)))
    \cup At("speed",
            Optional(kw["speed"],
                     IF kw["speed"].n < SPEED_GE THEN {"greater_than_equal"} ELSE {}))

NoPayload == [cls |-> "none", f |-> EmptyDict]

\* faulty variant: only None counts as no credential (`if api_key is None`)
auth_headers_unless_none(api_key) ==
    IF IsNone(api_key) THEN NoneMap
    ELSE SomeMap([k \in {"Authorization"} |-> "Bearer " \o api_key.s])

\* faulty variant: only the map models are frozen
model_config_frozen_for_maps_only(cls) == cls \in {"MapCreatePayload", "MapListParams"}

\* model_config = ConfigDict(frozen=True), in each of the four models
model_config_frozen(cls) ==
    cls \in {"MapCreatePayload", "MarkerCreatePayload", "MapListParams",
             "MarkerLocationPayload"}

\* Cartes._auth_headers
_auth_headers(api_key) ==
    IF ~Truthy(api_key) THEN NoneMap
    ELSE SomeMap([k \in {"Authorization"} |-> "Bearer " \o api_key.s])

\* self.base_url, as Cartes.__init__ stored it
self_base_url == cargs.base_url

NoArgs ==
    [base_url |-> base_url, map_id |-> "", marker_id |-> "", api_key |-> None_,
     marker_token |-> None_, map_token |-> None_]

NoExit == [code |-> -1, out |-> "none"]
NoAssign == [field |-> "", value |-> None_, exc |-> ""]
NoKwargs == [cls |-> "none", kw |-> EmptyDict]
NoMemo ==
    [op |-> "none", cargs |-> NoArgs, kwargs |-> NoKwargs, call |-> NoCall,
     net |-> NoNet, sent |-> <<>>, result |-> NoResult]

---------------------------------------------------------------------------
(* The inputs a caller can supply *)

KeyNames == <<"a", "b", "c", "d">>
ParamKeys == {KeyNames[i] : i \in 1..MaxKeys}
\* None, the falsy values False, 0 and "", and a truthy value
ParamValues == {None_, PyBool(FALSE), PyInt(0), PyStr(""), PyStr("x")}
ParamArgs == {NoneMap} \cup {SomeMap(d) : d \in Dicts(ParamKeys, ParamValues)}
\* no headers, an empty mapping, and a mapping that overrides one default
\* and adds a header of its own
HeaderArgs ==
    {NoneMap, SomeMap(EmptyDict),
     SomeMap([k \in {"Accept", "X-Request-Id"} |->
                IF k = "Accept" THEN "text/plain" ELSE "r1"])}
\* no timeout argument, a timeout of its own, and None (wait for ever)
TimeoutArgs == {Unspecified, PyFloat(30), None_}
ApiKeys == {None_, PyStr(""), PyStr("key")}
Tokens == {None_, PyStr("tok")}

\* coordinates at and beyond each bound, and the origin
LatInputs ==
    (LAT_GE - Margin .. LAT_GE) \cup {0} \cup (LAT_LE .. LAT_LE + Margin)
LngInputs ==
    (LNG_GE - Margin .. LNG_GE) \cup (LAT_GE - Margin .. LAT_GE) \cup {0}
    \cup (LAT_LE .. LAT_LE + Margin) \cup (LNG_LE .. LNG_LE + Margin)
CategoryInputs == {None_, PyInt(0)}
CategoryNameInputs == {None_, PyStr("Sharks")}

\* telemetry values at and just beyond each bound
TelemetryInputs(field) ==
    CASE field = "zoom" -> {ZOOM_GE - 1, ZOOM_GE, ZOOM_LE, ZOOM_LE + 1}
      [] field = "elevation" -> {-5, 9000}
      [] field = "heading" -> {HEADING_GE - 1, HEADING_GE, HEADING_LT - 1, HEADING_LT}
      [] field = "pitch" -> {PITCH_GE - 1, PITCH_GE, PITCH_LE, PITCH_LE + 1}
      [] field = "roll" -> {ROLL_GE - 1, ROLL_GE, ROLL_LE, ROLL_LE + 1}
      [] field = "speed" -> {SPEED_GE - 1, SPEED_GE, SPEED_GE + 7}

\* the telemetry a caller supplies: at most MaxTelemetry fields
TelemetryChoices ==
    UNION {{t \in [T -> UNION {TelemetryInputs(f) : f \in T}] :
              \A f \in T : t[f] \in TelemetryInputs(f)} :
           T \in {X \in SUBSET TelemetryFields : Cardinality(X) <= MaxTelemetry}}

MarkerCreateKwargs ==
    {[map_token |-> PyStr("tok"), lat |-> PyFloat(lat), lng |-> PyFloat(lng),
      category |-> c, category_name |-> n, description |-> d] :
        lat \in LatInputs, lng \in LngInputs, c \in CategoryInputs,
        n \in CategoryNameInputs, d \in {None_, PyStr("Reef")}}

\* a location: any coordinates without telemetry, and every telemetry choice
\* at the origin and at a latitude beyond the bound
MarkerLocationKwargs ==
    {[f \in MarkerLocationFields |->
        IF f = "lat" THEN PyFloat(c[1])
        ELSE IF f = "lng" THEN PyFloat(c[2])
        ELSE IF f \in DOMAIN c[3] THEN PyFloat(c[3][f])
        ELSE None_] :
        c \in {x \in LatInputs \X LngInputs \X TelemetryChoices :
                 \/ DOMAIN x[3] = {}
                 \/ x[2] = 0 /\ x[1] \in {0, LAT_LE + Margin}}}

\* every value of each enumeration, a value outside both, and a privacy value
\* given as the marker permission
MapCreateKwargs ==
    {[title |-> t, slug |-> None_, description |-> None_, privacy |-> p,
      users_can_create_markers |-> u] :
        t \in {None_, PyStr("My Map")},
        p \in {None_, PyStr("public"), PyStr("unlisted"), PyStr("private"),
               PyStr("secret")},
        u \in {None_, PyStr("yes"), PyStr("no"), PyStr("only_logged_in"),
               PyStr("public")}}

\* Cartes() and Cartes(base_url="https://custom.api.com")
BaseUrls == {base_url, "https://custom.api.com"}

\* the client instance and the routing arguments of a call; the client with
\* the base URL of its own is called without credential
ClientArgs ==
    {a \in {[base_url |-> u, map_id |-> "m1", marker_id |-> "7", api_key |-> k,
             marker_token |-> t, map_token |-> None_] :
               u \in BaseUrls, k \in ApiKeys, t \in Tokens} :
        a.base_url # base_url => a.api_key = None_ /\ a.marker_token = None_}

\* the commands share the module's client `api = Cartes()`
CliArgs == {a \in ClientArgs : a.base_url = base_url}

MapListFields ==
    {"ids", "category_ids", "with_mine", "with_relations", "order_by", "query",
     "response_format"}

\* the text filters: none, all three, or an empty query alone
TextFilters ==
    {[order_by |-> None_, query |-> None_, response_format |-> None_],
     [order_by |-> PyStr("created_at"), query |-> PyStr("test"),
      response_format |-> PyStr("geojson")],
     [order_by |-> None_, query |-> PyStr(""), response_format |-> None_]}

MapListKwargs ==
    {[f \in MapListFields |->
        IF f = "ids" THEN i
        ELSE IF f = "category_ids" THEN c
        ELSE IF f = "with_mine" THEN m
        ELSE IF f = "with_relations" THEN w
        ELSE t[f]] :
        i \in {None_, PyList(0, ""), PyList(2, "id1,id2")},
        c \in {None_, PyList(2, "1,2")},
        m \in {None_, PyBool(FALSE), PyBool(TRUE)},
        w \in {None_, PyList(1, "markers")},
        t \in TextFilters}

\* the client methods that take no payload object
PlainOps ==
    {"map_search", "map_get", "map_delete", "map_static_image", "map_claim",
     "map_unclaim", "map_user_list", "map_user_add", "map_user_delete",
     "marker_list", "marker_edit", "marker_delete", "marker_spam",
     "marker_location_list", "category_list", "category_search",
     "category_related", "user_list", "user_get", "me_get", "me_update"}

\* the keyword arguments of each of them, besides the routing arguments
PlainKwargs(o) ==
    CASE o \in {"map_search", "category_search"} -> {[query |-> PyStr("x")]}
      [] o = "map_static_image" -> {[zoom |-> z] : z \in {None_, PyInt(0), PyInt(5)}}
      [] o = "map_user_add" ->
           {[username |-> PyStr("alice"), can_create_markers |-> c] :
              c \in {None_, PyBool(FALSE)}}
      [] o = "map_user_delete" -> {[username |-> PyStr("alice")]}
      [] o = "marker_list" ->
           {[show_expired |-> e, response_format |-> f] :
              e \in {None_, PyBool(FALSE)}, f \in {None_, PyStr("geojson")}}
      [] o = "marker_edit" -> {[description |-> d] : d \in {None_, PyStr("Reef")}}
      [] o = "marker_spam" -> {[is_spam |-> b] : b \in {PyBool(FALSE), PyBool(TRUE)}}
      [] o = "category_related" -> {[category_id |-> PyInt(3)]}
      [] o = "user_get" ->
           {[username |-> PyStr("alice"), with_relations |-> w] :
              w \in {None_, PyList(0, ""), PyList(1, "maps")}}
      [] o = "me_update" ->
           {[username |-> u, is_public |-> b] :
              u \in {None_, PyStr("alice")}, b \in {None_, PyBool(FALSE)}}
      [] OTHER -> {EmptyDict}

\* the routing arguments of each of them: the tokens vary where the method has
\* the parameter
PlainArgs(o) ==
    {[a EXCEPT !.map_token = t] :
        a \in {c \in ClientArgs :
                 o \notin {"marker_edit", "marker_delete"} => c.marker_token = None_},
        t \in IF o \in {"map_delete", "map_claim", "marker_spam"} THEN Tokens
              ELSE {None_}}

LegacyOps == {"legacy_request_json", "legacy_marker_create", "legacy_map_create"}

---------------------------------------------------------------------------
(* The state machine *)

Init ==
    /\ pc = "idle"
    /\ op = "none"
    /\ via = "none"
    /\ cargs = NoArgs
    /\ kwargs = NoKwargs
    /\ cliParse = "n/a"
    /\ payload = NoPayload
    /\ call = NoCall
    /\ sent = <<>>
    /\ net = NoNet
    /\ result = NoResult
    /\ exit = NoExit
    /\ assign = NoAssign
    /\ memo = NoMemo

\* a library user calls request_json of the current revision
call_request_json ==
    /\ pc = "idle"
    /\ \E rt \in RequestType, h \in HeaderArgs, p \in ParamArgs, t \in TimeoutArgs :
         call' = [request_type |-> rt, url |-> base_url \o "/maps", headers |-> h,
                  params |-> p, timeout |-> t]
    /\ op' = "request_json"
    /\ via' = "lib"
    /\ pc' = "request"
    /\ UNCHANGED <<memo, assign, cargs, kwargs, cliParse, payload, sent, net, result, exit>>

\* a library user calls request_json of the legacy revision
call_legacy_request_json ==
    /\ pc = "idle"
    /\ \E rt \in RequestType, h \in HeaderArgs, p \in ParamArgs :
         call' = [request_type |-> rt, url |-> base_url \o "/maps", headers |-> h,
                  params |-> p, timeout |-> Unspecified]
    /\ op' = "legacy_request_json"
    /\ via' = "lib"
    /\ pc' = "request"
    /\ UNCHANGED <<memo, assign, cargs, kwargs, cliParse, payload, sent, net, result, exit>>

\* a library user starts a client operation: the payload is built first;
\* map_create may also be called with no payload at all
call_client ==
    /\ pc = "idle"
    /\ \/ /\ op' = "marker_create"
          /\ \E kw \in MarkerCreateKwargs :
               kwargs' = [cls |-> "MarkerCreatePayload", kw |-> kw]
          /\ \E a \in ClientArgs : a.marker_token = None_ /\ cargs' = a
          /\ pc' = "construct"
       \/ /\ op' = "marker_location_create"
          /\ \E kw \in MarkerLocationKwargs :
               kwargs' = [cls |-> "MarkerLocationPayload", kw |-> kw]
          /\ \E a \in ClientArgs : cargs' = a
          /\ pc' = "construct"
       \/ /\ op' = "map_create"
          /\ \E kw \in MapCreateKwargs :
               kwargs' = [cls |-> "MapCreatePayload", kw |-> kw]
          /\ \E a \in ClientArgs : a.marker_token = None_ /\ cargs' = a
          /\ pc' = "construct"
       \/ /\ op' = "map_create"
          /\ kwargs' = NoKwargs
          /\ \E a \in ClientArgs : a.marker_token = None_ /\ cargs' = a
          /\ pc' = "client"
    /\ via' = "lib"
    /\ UNCHANGED <<memo, assign, cliParse, payload, call, sent, net, result, exit>>

\* a library user calls a client method that takes no payload object
call_method ==
    /\ pc = "idle"
    /\ \E o \in PlainOps :
         /\ op' = o
         /\ \E kw \in PlainKwargs(o) : kwargs' = [cls |-> "none", kw |-> kw]
         /\ \E a \in PlainArgs(o) : cargs' = a
    /\ via' = "lib"
    /\ pc' = "client"
    /\ UNCHANGED <<memo, assign, cliParse, payload, call, sent, net, result, exit>>

\* a library user calls map_edit, with a payload built first or with none
call_map_edit ==
    /\ pc = "idle"
    /\ op' = "map_edit"
    /\ \E a \in ClientArgs, t \in Tokens :
         a.marker_token = None_ /\ cargs' = [a EXCEPT !.map_token = t]
    /\ \/ /\ \E kw \in MapCreateKwargs :
               kwargs' = [cls |-> "MapCreatePayload", kw |-> kw]
          /\ pc' = "construct"
       \/ /\ kwargs' = NoKwargs
          /\ pc' = "client"
    /\ via' = "lib"
    /\ UNCHANGED <<memo, assign, cliParse, payload, call, sent, net, result, exit>>

\* a library user calls map_list, with filters built first or with none
call_map_list ==
    /\ pc = "idle"
    /\ op' = "map_list"
    /\ \E a \in ClientArgs : a.marker_token = None_ /\ cargs' = a
    /\ \/ /\ \E kw \in MapListKwargs :
               kwargs' = [cls |-> "MapListParams", kw |-> kw]
          /\ pc' = "construct"
       \/ /\ kwargs' = NoKwargs
          /\ pc' = "client"
    /\ via' = "lib"
    /\ UNCHANGED <<memo, assign, cliParse, payload, call, sent, net, result, exit>>

\* typer's range check of one numeric option (click's ranges, bounds included)
InRange(v, min, max) == IsNone(v) \/ (min <= v.n /\ v.n <= max)

\* `simple_maps marker create`: option parsing
cli_marker_create ==
    /\ pc = "idle"
    /\ \E kw \in MarkerCreateKwargs, a \in CliArgs :
         /\ a.marker_token = None_
         /\ kwargs' = [cls |-> "MarkerCreatePayload", kw |-> kw]
         /\ cargs' = a
         /\ IF /\ InRange(kw["lat"], CLI_LAT_MIN, CLI_LAT_MAX)
               /\ InRange(kw["lng"], CLI_LNG_MIN, CLI_LNG_MAX)
            THEN cliParse' = "accepted" /\ pc' = "construct" /\ exit' = exit
            ELSE cliParse' = "rejected" /\ pc' = "exited"
                 /\ exit' = [code |-> 2, out |-> "usage"]
    /\ op' = "marker_create"
    /\ via' = "cli"
    /\ UNCHANGED <<memo, assign, payload, call, sent, net, result>>

\* `simple_maps marker location-create`: option parsing
cli_marker_location_create ==
    /\ pc = "idle"
    /\ \E kw \in MarkerLocationKwargs, a \in CliArgs :
         /\ kwargs' = [cls |-> "MarkerLocationPayload", kw |-> kw]
         /\ cargs' = a
         /\ IF /\ InRange(kw["lat"], CLI_LAT_MIN, CLI_LAT_MAX)
               /\ InRange(kw["lng"], CLI_LNG_MIN, CLI_LNG_MAX)
               /\ InRange(kw["zoom"], CLI_ZOOM_MIN, CLI_ZOOM_MAX)
               /\ InRange(kw["heading"], CLI_HEADING_MIN, CLI_HEADING_MAX)
               /\ InRange(kw["pitch"], CLI_PITCH_MIN, CLI_PITCH_MAX)
               /\ InRange(kw["roll"], CLI_ROLL_MIN, CLI_ROLL_MAX)
            THEN cliParse' = "accepted" /\ pc' = "construct" /\ exit' = exit
            ELSE cliParse' = "rejected" /\ pc' = "exited"
                 /\ exit' = [code |-> 2, out |-> "usage"]
    /\ op' = "marker_location_create"
    /\ via' = "cli"
    /\ UNCHANGED <<memo, assign, payload, call, sent, net, result>>

\* the commands that have no --api-key option
CliWithoutApiKey ==
    {"map_search", "map_get", "map_static_image", "marker_list",
     "marker_location_list", "category_list", "category_search",
     "category_related", "user_list", "user_get"}

\* the commands whose --api-key option is required
CliApiKeyRequired ==
    {"map_claim", "map_unclaim", "map_user_list", "map_user_add",
     "map_user_delete", "me_get", "me_update"}

\* the arguments a command line can express for command o
CliExpressible(o, kw, a) ==
    /\ o \in CliWithoutApiKey => a.api_key = None_
    /\ o = "user_get" => kw["with_relations"] = None_

\* typer's parsing of command o: required options are present and ranged
\* options are in range
CliAccepts(o, kw, a) ==
    /\ o \in CliApiKeyRequired => a.api_key # None_
    /\ o \in {"map_delete", "map_claim"} => a.map_token # None_
    /\ o \in {"marker_edit", "marker_delete"} => a.marker_token # None_
    /\ o = "map_static_image" =>
         InRange(kw["zoom"], CLI_STATIC_ZOOM_MIN, CLI_STATIC_ZOOM_MAX)

\* a command whose client method takes no payload object: option parsing
cli_command ==
    /\ pc = "idle"
    /\ \E o \in PlainOps :
         \E kw \in PlainKwargs(o),
            a \in {x \in PlainArgs(o) : x.base_url = base_url} :
           /\ CliExpressible(o, kw, a)
           /\ op' = o
           /\ kwargs' = [cls |-> "none", kw |-> kw]
           /\ cargs' = a
           /\ IF CliAccepts(o, kw, a)
              THEN cliParse' = "accepted" /\ pc' = "client" /\ exit' = exit
              ELSE cliParse' = "rejected" /\ pc' = "exited"
                   /\ exit' = [code |-> 2, out |-> "usage"]
    /\ via' = "cli"
    /\ UNCHANGED <<memo, assign, payload, call, sent, net, result>>

\* typer's parsing of an enum option (Privacy, Permission)
IsChoice(v, values) == IsNone(v) \/ v.s \in values

\* `simple_maps map create` and `simple_maps map edit`: option parsing
cli_map_create_or_edit ==
    /\ pc = "idle"
    /\ \E o \in {"map_create", "map_edit"}, kw \in MapCreateKwargs, a \in CliArgs,
          t \in Tokens :
         /\ a.marker_token = None_
         /\ o = "map_create" => t = None_
         /\ op' = o
         /\ kwargs' = [cls |-> "MapCreatePayload", kw |-> kw]
         /\ cargs' = [a EXCEPT !.map_token = t]
         /\ IF /\ IsChoice(kw["privacy"], PrivacyValues)
               /\ IsChoice(kw["users_can_create_markers"], PermissionValues)
            THEN cliParse' = "accepted" /\ pc' = "construct" /\ exit' = exit
            ELSE cliParse' = "rejected" /\ pc' = "exited"
                 /\ exit' = [code |-> 2, out |-> "usage"]
    /\ via' = "cli"
    /\ UNCHANGED <<memo, assign, payload, call, sent, net, result>>

\* `simple_maps map list`: the command has no option for ids, category_ids
\* or with_relations
cli_map_list ==
    /\ pc = "idle"
    /\ \E kw \in MapListKwargs, a \in CliArgs :
         /\ a.marker_token = None_
         /\ kw["ids"] = None_ /\ kw["with_relations"] = None_
         /\ kw["category_ids"] = None_
         /\ kwargs' = [cls |-> "MapListParams", kw |-> kw]
         /\ cargs' = a
    /\ op' = "map_list"
    /\ via' = "cli"
    /\ cliParse' = "accepted"
    /\ pc' = "construct"
    /\ UNCHANGED <<memo, assign, payload, call, sent, net, result, exit>>

\* the legacy `marker create` command: option parsing, then the call of
\* api.marker_create, which the legacy Cartes class does not define
legacy_cli_marker_create ==
    /\ pc = "idle"
    /\ \E kw \in MarkerCreateKwargs :
         /\ kwargs' = [cls |-> "none", kw |-> kw]
         /\ IF /\ InRange(kw["lat"], LEGACY_CLI_LAT_MIN, LEGACY_CLI_LAT_MAX)
               /\ InRange(kw["lng"], LEGACY_CLI_LNG_MIN, LEGACY_CLI_LNG_MAX)
            THEN /\ cliParse' = "accepted"
                 /\ result' = Raised("AttributeError")
                 /\ exit' = [code |-> 1, out |-> "traceback"]
            ELSE /\ cliParse' = "rejected"
                 /\ result' = result
                 /\ exit' = [code |-> 2, out |-> "usage"]
    /\ op' = "legacy_marker_create"
    /\ via' = "cli"
    /\ pc' = "exited"
    /\ UNCHANGED <<memo, assign, cargs, payload, call, sent, net>>

\* pydantic's BaseModel.__init__: the payload object, or a ValidationError
Construct(errs) ==
    /\ pc = "construct"
    /\ IF errs = {}
       THEN /\ payload' = [cls |-> kwargs.cls, f |-> kwargs.kw]
            /\ pc' = "client"
            /\ result' = result
       ELSE /\ payload' = payload
            /\ pc' = "returned"
            /\ result' = ValidationError(errs)
    /\ UNCHANGED <<memo, assign, op, via, cargs, kwargs, cliParse, call, sent, net, exit>>

MapCreatePayload_init ==
    /\ kwargs.cls = "MapCreatePayload"
    /\ Construct(MapCreateFieldErrors(kwargs.kw))

\* faulty variant: the marker payload is validated only once its request has gone out
MarkerCreatePayload_validated_at_send ==
    /\ pc = "construct"
    /\ kwargs.cls = "MarkerCreatePayload"
    /\ IF MarkerCreateErrors(kwargs.kw) = {}
       THEN /\ payload' = [cls |-> kwargs.cls, f |-> kwargs.kw]
            /\ pc' = "client"
            /\ result' = result
            /\ sent' = sent
       ELSE /\ payload' = payload
            /\ pc' = "returned"
            /\ result' = ValidationError(MarkerCreateErrors(kwargs.kw))
            /\ sent' = <<[lib |-> "httpx", method |-> "POST",
                          url |-> self_base_url \o "/maps/" \o cargs.map_id \o "/markers",
                          headers |-> DefaultHeaders, params |-> NoneMap,
                          json |-> SomeMap(kwargs.kw),
                          timeout |-> PyFloat(DEFAULT_TIMEOUT)]>>
    /\ UNCHANGED <<memo, assign, op, via, cargs, kwargs, cliParse, call, net, exit>>

MarkerCreatePayload_init ==
    /\ kwargs.cls = "MarkerCreatePayload"
    /\ Construct(MarkerCreateErrors(kwargs.kw))

MarkerLocationPayload_init ==
    /\ kwargs.cls = "MarkerLocationPayload"
    /\ Construct(MarkerLocationErrors(kwargs.kw))

\* no field of MapListParams carries a constraint
MapListParams_init ==
    /\ kwargs.cls = "MapListParams"
    /\ Construct({})

\* the values a caller tries to assign to a field
AssignInputs == {None_, PyFloat(1000)}

\* `payload.field = value` on a constructed payload: a frozen model refuses
\* with a ValidationError (frozen_instance), which ends the caller's run; an
\* unfrozen model takes the value unvalidated
setattr_payload ==
    /\ pc = "client"
    /\ via = "lib"
    /\ payload # NoPayload
    /\ assign = NoAssign
    /\ \E field \in DOMAIN payload.f, value \in AssignInputs :
         IF model_config_frozen(payload.cls)
         THEN /\ assign' = [field |-> field, value |-> value, exc |-> "ValidationError"]
              /\ payload' = payload
              /\ pc' = "returned"
         ELSE /\ assign' = [field |-> field, value |-> value, exc |-> ""]
              /\ payload' = [payload EXCEPT !.f[field] = value]
              /\ pc' = "client"
    /\ UNCHANGED <<memo, op, via, cargs, kwargs, cliParse, call, sent, net, result, exit>>

\* a client method hands its request to request_json
CallRequestJson(request_type, url, params) ==
    /\ pc = "client"
    /\ call' = [request_type |-> request_type, url |-> url,
                headers |-> _auth_headers(cargs.api_key),
                params |-> SomeMap(params), timeout |-> Unspecified]
    /\ pc' = "request"
    /\ UNCHANGED <<memo, assign, op, via, cargs, kwargs, cliParse, payload, sent, net, result, exit>>

\* Cartes.map_create: `payload or MapCreatePayload()`
map_create ==
    /\ op = "map_create"
    /\ LET request_payload ==
               IF payload = NoPayload THEN [k \in MapCreateFields |-> None_]
               ELSE payload.f
       IN  CallRequestJson("post", self_base_url \o "/maps",
                           [k \in MapCreateFields |-> request_payload[k]])

\* faulty variant: the category name never reaches the request
marker_create_without_category_name ==
    /\ op = "marker_create"
    /\ CallRequestJson("post", self_base_url \o "/maps/" \o cargs.map_id \o "/markers",
                       [k \in MarkerCreateFields \ {"category_name"} |-> payload.f[k]])

\* faulty variant: the category name is sent only when no category is given
marker_create_preferring_category ==
    /\ op = "marker_create"
    /\ CallRequestJson("post", self_base_url \o "/maps/" \o cargs.map_id \o "/markers",
                       [k \in MarkerCreateFields |->
                          IF k = "category_name" /\ payload.f["category"] # None_
                          THEN None_
                          ELSE payload.f[k]])

\* Cartes.marker_create
marker_create ==
    /\ op = "marker_create"
    /\ CallRequestJson("post", self_base_url \o "/maps/" \o cargs.map_id \o "/markers",
                       [k \in MarkerCreateFields |-> payload.f[k]])

\* Cartes.marker_location_create
marker_location_create ==
    /\ op = "marker_location_create"
    /\ CallRequestJson("post",
                       self_base_url \o "/maps/" \o cargs.map_id \o "/markers/"
                           \o cargs.marker_id \o "/locations",
                       [k \in {"token"} \cup MarkerLocationFields |->
                          IF k = "token" THEN cargs.marker_token ELSE payload.f[k]])

\* a client method that passes no params argument to request_json
CallRequestJsonBare(request_type, url) ==
    /\ pc = "client"
    /\ call' = [request_type |-> request_type, url |-> url,
                headers |-> _auth_headers(cargs.api_key),
                params |-> NoneMap, timeout |-> Unspecified]
    /\ pc' = "request"
    /\ UNCHANGED <<memo, assign, op, via, cargs, kwargs, cliParse, payload, sent, net, result, exit>>

\* an integer inside an f-string
format_int(v) ==
    CASE v.n = 0 -> "0"
      [] v.n = 3 -> "3"
      [] v.n = 5 -> "5"

map_url == self_base_url \o "/maps/" \o cargs.map_id
marker_url == map_url \o "/markers/" \o cargs.marker_id

\* faulty variant: with_mine is added only when it is true (`if p.with_mine`)
map_list_dropping_false_flag ==
    /\ op = "map_list"
    /\ LET p == IF payload = NoPayload THEN [k \in MapListFields |-> None_]
                ELSE payload.f
           keys == {"orderBy", "query", "format"}
                   \cup (IF Truthy(p["with_mine"]) THEN {"withMine"} ELSE {})
                   \cup (IF Truthy(p["ids"]) THEN {"ids[]"} ELSE {})
                   \cup (IF Truthy(p["category_ids"]) THEN {"category_ids[]"} ELSE {})
                   \cup (IF Truthy(p["with_relations"]) THEN {"with[]"} ELSE {})
       IN  CallRequestJson("get", self_base_url \o "/maps",
                           [k \in keys |->
                              CASE k = "orderBy" -> p["order_by"]
                                [] k = "query" -> p["query"]
                                [] k = "format" -> p["response_format"]
                                [] k = "withMine" -> p["with_mine"]
                                [] k = "ids[]" -> p["ids"]
                                [] k = "category_ids[]" -> p["category_ids"]
                                [] k = "with[]" -> p["with_relations"]])

\* Cartes.map_list: `params or MapListParams()`; the list filters are added
\* only when they are non-empty
map_list ==
    /\ op = "map_list"
    /\ LET p == IF payload = NoPayload THEN [k \in MapListFields |-> None_]
                ELSE payload.f
           keys == {"orderBy", "query", "format", "withMine"}
                   \cup (IF Truthy(p["ids"]) THEN {"ids[]"} ELSE {})
                   \cup (IF Truthy(p["category_ids"]) THEN {"category_ids[]"} ELSE {})
                   \cup (IF Truthy(p["with_relations"]) THEN {"with[]"} ELSE {})
       IN  CallRequestJson("get", self_base_url \o "/maps",
                           [k \in keys |->
                              CASE k = "orderBy" -> p["order_by"]
                                [] k = "query" -> p["query"]
                                [] k = "format" -> p["response_format"]
                                [] k = "withMine" -> p["with_mine"]
                                [] k = "ids[]" -> p["ids"]
                                [] k = "category_ids[]" -> p["category_ids"]
                                [] k = "with[]" -> p["with_relations"]])

map_search ==
    /\ op = "map_search"
    /\ CallRequestJson("get", self_base_url \o "/maps/search", [q |-> kwargs.kw["query"]])

map_get ==
    /\ op = "map_get"
    /\ CallRequestJsonBare("get", map_url)

\* Cartes.map_edit: `payload or MapCreatePayload()`
map_edit ==
    /\ op = "map_edit"
    /\ LET request_payload ==
               IF payload = NoPayload THEN [k \in MapCreateFields |-> None_]
               ELSE payload.f
       IN  CallRequestJson("put", map_url,
                           [k \in {"map_token"} \cup MapCreateFields |->
                              IF k = "map_token" THEN cargs.map_token
                              ELSE request_payload[k]])

map_delete ==
    /\ op = "map_delete"
    /\ CallRequestJson("delete", map_url, [map_token |-> cargs.map_token])

map_static_image ==
    /\ op = "map_static_image"
    /\ CallRequestJson("get", map_url \o "/images/static", [zoom |-> kwargs.kw["zoom"]])

map_claim ==
    /\ op = "map_claim"
    /\ CallRequestJson("post", map_url \o "/claim", [map_token |-> cargs.map_token])

\* faulty variant: the claim is released with a POST
map_unclaim_posting ==
    /\ op = "map_unclaim"
    /\ CallRequestJsonBare("post", map_url \o "/claim")

map_unclaim ==
    /\ op = "map_unclaim"
    /\ CallRequestJsonBare("delete", map_url \o "/claim")

map_user_list ==
    /\ op = "map_user_list"
    /\ CallRequestJsonBare("get", map_url \o "/users")

map_user_add ==
    /\ op = "map_user_add"
    /\ CallRequestJson("post", map_url \o "/users",
                       [username |-> kwargs.kw["username"],
                        can_create_markers |-> kwargs.kw["can_create_markers"]])

map_user_delete ==
    /\ op = "map_user_delete"
    /\ CallRequestJsonBare("delete", map_url \o "/users/" \o kwargs.kw["username"].s)

marker_list ==
    /\ op = "marker_list"
    /\ CallRequestJson("get", map_url \o "/markers",
                       [k \in {"show_expired", "format"} |->
                          IF k = "format" THEN kwargs.kw["response_format"]
                          ELSE kwargs.kw["show_expired"]])

marker_edit ==
    /\ op = "marker_edit"
    /\ CallRequestJson("put", marker_url,
                       [token |-> cargs.marker_token,
                        description |-> kwargs.kw["description"]])

\* faulty variant: the marker token goes out under the key of the map token
marker_delete_under_map_token ==
    /\ op = "marker_delete"
    /\ CallRequestJson("delete", marker_url, [map_token |-> cargs.marker_token])

marker_delete ==
    /\ op = "marker_delete"
    /\ CallRequestJson("delete", marker_url, [token |-> cargs.marker_token])

marker_spam ==
    /\ op = "marker_spam"
    /\ CallRequestJson("put", marker_url,
                       [map_token |-> cargs.map_token, is_spam |-> kwargs.kw["is_spam"]])

marker_location_list ==
    /\ op = "marker_location_list"
    /\ CallRequestJsonBare("get", marker_url \o "/locations")

category_list ==
    /\ op = "category_list"
    /\ CallRequestJsonBare("get", self_base_url \o "/categories")

category_search ==
    /\ op = "category_search"
    /\ CallRequestJson("get", self_base_url \o "/categories/search",
                       [q |-> kwargs.kw["query"]])

category_related ==
    /\ op = "category_related"
    /\ CallRequestJsonBare("get",
                           self_base_url \o "/categories/"
                               \o format_int(kwargs.kw["category_id"]) \o "/related")

user_list ==
    /\ op = "user_list"
    /\ CallRequestJsonBare("get", self_base_url \o "/users")

\* Cartes.user_get: `params if params else None`
user_get ==
    /\ op = "user_get"
    /\ LET url == self_base_url \o "/users/" \o kwargs.kw["username"].s
       IN  IF Truthy(kwargs.kw["with_relations"])
           THEN CallRequestJson("get", url,
                                [k \in {"with[]"} |-> kwargs.kw["with_relations"]])
           ELSE CallRequestJsonBare("get", url)

me_get ==
    /\ op = "me_get"
    /\ CallRequestJsonBare("get", self_base_url \o "/user")

me_update ==
    /\ op = "me_update"
    /\ CallRequestJson("put", self_base_url \o "/user",
                       [username |-> kwargs.kw["username"],
                        is_public |-> kwargs.kw["is_public"]])

\* a library user calls map_create of the legacy revision
call_legacy_map_create ==
    /\ pc = "idle"
    /\ \E kw \in MapCreateKwargs : kwargs' = [cls |-> "none", kw |-> kw]
    /\ op' = "legacy_map_create"
    /\ via' = "lib"
    /\ pc' = "client"
    /\ UNCHANGED <<memo, assign, cargs, cliParse, payload, call, sent, net, result, exit>>

\* Cartes.map_create (legacy revision): the five arguments go to the legacy
\* request_json as its params, no headers
legacy_map_create ==
    /\ pc = "client"
    /\ op = "legacy_map_create"
    /\ call' = [request_type |-> "post", url |-> base_url \o "/maps",
                headers |-> NoneMap,
                params |-> SomeMap([k \in MapCreateFields |-> kwargs.kw[k]]),
                timeout |-> Unspecified]
    /\ pc' = "request"
    /\ UNCHANGED <<memo, assign, op, via, cargs, kwargs, cliParse, payload, sent, net, result, exit>>

\* faulty variant: the caller's mappings are cleaned and completed in place
request_json_changing_its_arguments ==
    /\ pc = "request"
    /\ op \notin LegacyOps
    /\ \E outcome \in NetOutcomes :
         /\ sent' = sent \o dispatch(httpx_request_args(call), outcome)
         /\ net' = outcome
         /\ result' = request_json_result(call, outcome)
    /\ call' = [call EXCEPT
                  !.params = IF call.params.isNone THEN NoneMap
                             ELSE SomeMap(_filter_none_values(call.params)),
                  !.headers = IF call.headers.isNone THEN NoneMap
                              ELSE SomeMap(_build_headers(call.headers))]
    /\ pc' = "returned"
    /\ UNCHANGED <<memo, assign, op, via, cargs, kwargs, cliParse, payload, exit>>

\* request_json (current revision): one httpx.request call, status
\* classification, body decoding
request_json ==
    /\ pc = "request"
    /\ op \notin LegacyOps
    /\ \E outcome \in NetOutcomes :
         /\ sent' = sent \o dispatch(httpx_request_args(call), outcome)
         /\ net' = outcome
         /\ result' = request_json_result(call, outcome)
    /\ pc' = "returned"
    /\ UNCHANGED <<memo, assign, op, via, cargs, kwargs, cliParse, payload, call, exit>>

\* request_json (legacy revision)
legacy_request_json ==
    /\ pc = "request"
    /\ op \in LegacyOps
    /\ \E outcome \in NetOutcomes :
         /\ sent' = Append(sent, requests_request_args(call))
         /\ net' = outcome
         /\ result' = legacy_request_json_result(call, outcome)
    /\ pc' = "returned"
    /\ UNCHANGED <<memo, assign, op, via, cargs, kwargs, cliParse, payload, call, exit>>

\* faulty variant: `map get` has no except clause
Handles_except_in_map_get(command, exc) ==
    \/ command # "map_get" /\ exc = "HTTPStatusError"
    \/ command = "marker_create" /\ exc = "ValidationError"

\* the `except` clauses of a CLI command: which exceptions it handles itself
Handles(command, exc) ==
    \/ exc = "HTTPStatusError"
    \/ command = "marker_create" /\ exc = "ValidationError"

\* the end of a CLI command: echo the response, or report the error
cli_exit ==
    /\ pc = "returned"
    /\ via = "cli"
    /\ exit' = IF result.kind = "return" THEN [code |-> 0, out |-> "response"]
               ELSE IF Handles(op, result.exc) THEN [code |-> 1, out |-> "error"]
               ELSE [code |-> 1, out |-> "traceback"]
    /\ pc' = "exited"
    /\ UNCHANGED <<memo, assign, op, via, cargs, kwargs, cliParse, payload, call, sent, net, result>>

\* the invocation is over; nothing is kept for the next one
Reset ==
    /\ \/ pc = "returned" /\ via = "lib"
       \/ pc = "exited"
    /\ pc' = "idle"
    /\ op' = "none"
    /\ via' = "none"
    /\ cargs' = NoArgs
    /\ kwargs' = NoKwargs
    /\ cliParse' = "n/a"
    /\ payload' = NoPayload
    /\ call' = NoCall
    /\ sent' = <<>>
    /\ net' = NoNet
    /\ result' = NoResult
    /\ exit' = NoExit
    /\ assign' = NoAssign
    /\ UNCHANGED memo

Next ==
    \/ call_request_json
    \/ call_legacy_request_json
    \/ call_legacy_map_create
    \/ call_client
    \/ call_method
    \/ call_map_edit
    \/ call_map_list
    \/ cli_marker_create
    \/ cli_marker_location_create
    \/ cli_command
    \/ cli_map_create_or_edit
    \/ cli_map_list
    \/ legacy_cli_marker_create
    \/ MapCreatePayload_init
    \/ MarkerCreatePayload_init
    \/ MarkerLocationPayload_init
    \/ MapListParams_init
    \/ setattr_payload
    \/ map_list
    \/ map_search
    \/ map_get
    \/ map_create
    \/ map_edit
    \/ map_delete
    \/ map_static_image
    \/ map_claim
    \/ map_unclaim
    \/ map_user_list
    \/ map_user_add
    \/ map_user_delete
    \/ marker_list
    \/ marker_create
    \/ marker_edit
    \/ marker_delete
    \/ marker_spam
    \/ marker_location_list
    \/ marker_location_create
    \/ category_list
    \/ category_search
    \/ category_related
    \/ user_list
    \/ user_get
    \/ me_get
    \/ me_update
    \/ legacy_map_create
    \/ request_json
    \/ legacy_request_json
    \/ cli_exit
    \/ Reset

Spec == Init /\ [][Next]_vars

---------------------------------------------------------------------------
(* Successive invocations in one process: a later invocation is compared
   with an earlier one that was kept in memo *)

\* a library user calls request_json, with or without headers of their own
session_call_request_json ==
    /\ pc = "idle"
    /\ \E rt \in {"get", "post"}, h \in HeaderArgs :
         call' = [request_type |-> rt, url |-> base_url \o "/maps", headers |-> h,
                  params |-> NoneMap, timeout |-> Unspecified]
    /\ op' = "request_json"
    /\ via' = "lib"
    /\ pc' = "request"
    /\ UNCHANGED <<memo, assign, cargs, kwargs, cliParse, payload, sent, net, result, exit>>

\* a library user calls map_get, on any client and with any API key
session_call_map_get ==
    /\ pc = "idle"
    /\ op' = "map_get"
    /\ kwargs' = [cls |-> "none", kw |-> EmptyDict]
    /\ \E a \in PlainArgs("map_get") : cargs' = a
    /\ via' = "lib"
    /\ pc' = "client"
    /\ UNCHANGED <<memo, assign, cliParse, payload, call, sent, net, result, exit>>

\* the finished invocation is kept for comparison with a later one
Remember ==
    /\ pc = "returned"
    /\ call # NoCall
    /\ memo' = [op |-> op, cargs |-> cargs, kwargs |-> kwargs, call |-> call,
                net |-> net, sent |-> sent, result |-> result]
    /\ memo' # memo
    /\ UNCHANGED <<pc, op, via, cargs, kwargs, cliParse, payload, call, sent, net,
                   result, exit, assign>>

NextSession ==
    \/ session_call_request_json
    \/ session_call_map_get
    \/ map_get
    \/ request_json
    \/ Remember
    \/ Reset

SpecSession == Init /\ [][NextSession]_vars

---------------------------------------------------------------------------
(* Properties *)

\* the invocation runs the current revision (src/src/simple_maps)
CurrentRevision == op \notin LegacyOps \cup {"none"}

\* request_json has run to its end
RequestDone == pc \in {"returned", "exited"} /\ call # NoCall

\* the payload constructor has run
ConstructDone ==
    /\ pc \notin {"idle", "construct"}
    /\ kwargs.cls # "none"
    /\ cliParse # "rejected"

Constructed == payload.cls = kwargs.cls

\* the mapping a caller passed, None read as the empty mapping
Given(m) == IF m.isNone THEN EmptyDict ELSE m.d

\* the parameters a request carries, as query parameters or as JSON body
Carried(r) == IF r.params.isNone THEN Given(r.json) ELSE r.params.d

Success2xx == net.kind = "response" /\ net.status \in 200..299

\* C1: the parameters request_json sends are exactly the caller's entries whose
\* value is not None, each with its value unchanged; False, 0 and "" are kept.
C1_SentParamsAreNonNoneEntries ==
    (CurrentRevision /\ RequestDone) =>
        LET given == Given(call.params)
            carried == Carried(sent[1])
        IN  /\ DOMAIN carried \subseteq DOMAIN given
            /\ \A k \in DOMAIN given : (k \in DOMAIN carried) <=> (given[k] # None_)
            /\ \A k \in DOMAIN carried : carried[k] = given[k]

\* C1 witness: a None entry was dropped while a falsy entry was kept
C1_Witness ==
    /\ op = "request_json" /\ RequestDone
    /\ \E k \in DOMAIN Given(call.params) :
         Given(call.params)[k] = None_ /\ k \notin DOMAIN Carried(sent[1])
    /\ \E k \in DOMAIN Carried(sent[1]) :
         Carried(sent[1])[k] \in {PyBool(FALSE), PyInt(0), PyStr("")}

\* C2: in every request_json call the placement follows the method: GET carries
\* the cleaned parameters as query parameters and no body; PUT, POST and DELETE
\* carry them as the JSON body and no query parameters.
C2_PlacementFollowsMethod ==
    RequestDone =>
        LET given == Given(call.params)
            cleaned == [k \in {j \in DOMAIN given : given[j] # None_} |-> given[k]]
        IN  \A i \in 1..Len(sent) :
              IF call.request_type = "get"
              THEN sent[i].params = SomeMap(cleaned) /\ sent[i].json.isNone
              ELSE sent[i].json = SomeMap(cleaned) /\ sent[i].params.isNone

\* C3: a response whose status is not 2xx yields no value: request_json raises
\* an HTTP status error carrying the method, the URL and the status code.
C3_NonSuccessRaisesStatusError ==
    (CurrentRevision /\ RequestDone /\ net.kind = "response" /\ ~Success2xx) =>
        /\ result.kind = "raise"
        /\ result.exc = "HTTPStatusError"
        /\ result.method = Upper(call.request_type)
        /\ result.url = call.url
        /\ result.status = net.status

\* C3 witness: a redirect status raised the error for a GET
C3_Witness ==
    /\ CurrentRevision /\ RequestDone
    /\ net.kind = "response" /\ net.status = 301
    /\ result.exc = "HTTPStatusError" /\ result.status = 301
    /\ result.method = "GET"

C5_ReturnsObjectOrArray ==
    (CurrentRevision /\ RequestDone /\ result.kind = "return") =>
        result.jtype \in {"object", "array"}

\* C6: an invocation issues exactly one HTTP request whatever the outcome
\* (status error, transport failure, timeout, decode fallback): never a second.
C6_ExactlyOneRequest ==
    /\ Len(sent) <= 1
    /\ RequestDone => Len(sent) = 1

\* C6 witness: a timed-out exchange, and one request on the wire
C6_Witness ==
    /\ RequestDone /\ net.kind = "TimeoutException"
    /\ result.kind = "raise" /\ Len(sent) = 1

\* C7: validation precedes network I/O: when payload construction fails no
\* request has been or is issued, and a constructed payload never raises a
\* validation error later.
C7_ValidationBeforeNetwork ==
    /\ result.exc = "ValidationError" =>
         sent = <<>> /\ call = NoCall /\ payload = NoPayload
    /\ payload # NoPayload => result.exc # "ValidationError"

\* C7 witness: a marker payload was refused and the operation is over
C7_Witness ==
    /\ op = "marker_create" /\ pc \in {"returned", "exited"}
    /\ result.exc = "ValidationError" /\ sent = <<>>

\* the other fields of a marker or location payload are valid
OtherFieldsValid(kw) ==
    /\ -180 <= kw["lng"].n /\ kw["lng"].n <= 180
    /\ "category" \in DOMAIN kw =>
         kw["category"] # None_ \/ kw["category_name"] # None_
    /\ "zoom" \in DOMAIN kw =>
         /\ kw["zoom"] = None_ \/ kw["zoom"].n \in 0..20
         /\ kw["heading"] = None_ \/ kw["heading"].n \in 0..359
         /\ kw["pitch"] = None_ \/ kw["pitch"].n \in -90..90
         /\ kw["roll"] = None_ \/ kw["roll"].n \in -180..180
         /\ kw["speed"] = None_ \/ kw["speed"].n >= 0

\* C8: MarkerCreatePayload and MarkerLocationPayload (other fields valid) are
\* constructed iff -90 <= lat <= 90, bounds included; a latitude outside fails
\* with a range error on lat.
C8_LatitudeBounds ==
    (ConstructDone /\ kwargs.cls \in {"MarkerCreatePayload", "MarkerLocationPayload"}) =>
        LET lat == kwargs.kw["lat"].n
        IN  /\ (lat < -90 \/ lat > 90) =>
                 /\ ~Constructed
                 /\ result.exc = "ValidationError"
                 /\ result.errs \cap {"lat:greater_than_equal", "lat:less_than_equal"} # {}
            /\ (-90 <= lat /\ lat <= 90) =>
                 /\ result.errs \cap {"lat:greater_than_equal", "lat:less_than_equal",
                                      "lat:less_than", "lat:greater_than"} = {}
                 /\ OtherFieldsValid(kwargs.kw) => Constructed

\* C8 witness: the bound 90 itself was accepted for a location payload
C8_Witness ==
    /\ ConstructDone /\ kwargs.cls = "MarkerLocationPayload"
    /\ kwargs.kw["lat"].n = 90 /\ Constructed

\* C9: marker and marker-location creation (payload construction and the CLI
\* options that feed it) accept a longitude iff -180 <= lng <= 180, bounds
\* included; every longitude with 90 < |lng| <= 180 is accepted.
C9_LongitudeBounds ==
    (/\ pc \in {"client", "request", "returned", "exited"}
     /\ op \in {"marker_create", "marker_location_create", "legacy_marker_create"}
     /\ -90 <= kwargs.kw["lat"].n /\ kwargs.kw["lat"].n <= 90
     /\ OtherFieldsValid([kwargs.kw EXCEPT !["lng"] = PyFloat(0)])) =>
        LET lng == kwargs.kw["lng"].n
            accepted == /\ cliParse # "rejected"
                        /\ op \notin LegacyOps => Constructed
        IN  accepted <=> (-180 <= lng /\ lng <= 180)

\* C10: with valid coordinates MarkerCreatePayload fails, with the
\* required-choice error, iff category and category_name are both absent;
\* category alone, category_name alone, or both, succeed.
C10_CategoryChoiceRequired ==
    (/\ ConstructDone /\ kwargs.cls = "MarkerCreatePayload"
     /\ kwargs.kw["lat"].n \in -90..90 /\ kwargs.kw["lng"].n \in -180..180) =>
        IF kwargs.kw["category"] = None_ /\ kwargs.kw["category_name"] = None_
        THEN ~Constructed /\ result = ValidationError({"__root__:value_error"})
        ELSE Constructed /\ result.exc # "ValidationError"

\* C10 witness: a marker with a category id and no category name was built
C10_Witness ==
    /\ ConstructDone /\ kwargs.cls = "MarkerCreatePayload"
    /\ kwargs.kw["category"] = PyInt(0) /\ kwargs.kw["category_name"] = None_
    /\ Constructed

\* the range the specification gives for a telemetry field
TelemetryInRange(field, x) ==
    CASE field = "zoom" -> 0 <= x /\ x <= 20
      [] field = "heading" -> 0 <= x /\ x < 360
      [] field = "pitch" -> -90 <= x /\ x <= 90
      [] field = "roll" -> -180 <= x /\ x <= 180
      [] field = "speed" -> x >= 0
      [] field = "elevation" -> TRUE

\* the validation result names this field in one of its error entries
FieldRefused(field) ==
    \E t \in {"greater_than_equal", "less_than_equal", "greater_than", "less_than"} :
        (field \o ":" \o t) \in result.errs

\* C11: MarkerLocationPayload checks each telemetry field on its own: with valid
\* coordinates it is constructed iff every supplied field is in its range (zoom
\* 0..20, heading 0 up to but not 360, pitch -90..90, roll -180..180, speed >= 0,
\* elevation free); exactly the out-of-range fields are refused, an absent field
\* never is.
C11_TelemetryRanges ==
    (ConstructDone /\ kwargs.cls = "MarkerLocationPayload") =>
        LET kw == kwargs.kw
            bad == {f \in TelemetryFields :
                      kw[f] # None_ /\ ~TelemetryInRange(f, kw[f].n)}
        IN  /\ (kw["lat"].n \in -90..90 /\ kw["lng"].n \in -180..180) =>
                 (Constructed <=> bad = {})
            /\ bad # {} => ~Constructed /\ result.exc = "ValidationError"
            /\ ~Constructed => \A f \in TelemetryFields : FieldRefused(f) <=> f \in bad

\* C11 witness: heading 360 was refused, and it alone, beside a valid zoom
C11_Witness ==
    /\ ConstructDone /\ kwargs.cls = "MarkerLocationPayload"
    /\ kwargs.kw["heading"] = PyFloat(360) /\ kwargs.kw["zoom"] = PyFloat(20)
    /\ kwargs.kw["lat"].n = 0 /\ kwargs.kw["lng"].n = 0
    /\ result = ValidationError({"heading:less_than"})

\* C12: the headers of every request request_json sends are the two defaults
\* merged with the caller's headers: each caller header with the caller's
\* value, each default unless the caller gave a header of that name.
C12_HeadersMerged ==
    (CurrentRevision /\ RequestDone) =>
        LET given == Given(call.headers)
            defaults == {"Content-Type", "Accept"}
        IN  \A i \in 1..Len(sent) :
              /\ DOMAIN sent[i].headers = defaults \cup DOMAIN given
              /\ \A k \in DOMAIN given : sent[i].headers[k] = given[k]
              /\ \A k \in defaults \ DOMAIN given :
                   sent[i].headers[k] = "application/json"

\* C12 witness: the caller overrode Accept, added a header, and kept Content-Type
C12_Witness ==
    /\ op = "request_json" /\ RequestDone
    /\ call.headers # NoneMap
    /\ DOMAIN sent[1].headers = {"Content-Type", "Accept", "X-Request-Id"}
    /\ sent[1].headers["Accept"] = "text/plain"
    /\ sent[1].headers["X-Request-Id"] = "r1"
    /\ sent[1].headers["Content-Type"] = "application/json"

\* C13: the request of a client operation carries Authorization: Bearer <key>
\* iff a non-empty api_key was given; with None or "" there is no such header
\* and the request goes out all the same.
C13_BearerIffCredential ==
    (CurrentRevision /\ op # "request_json" /\ RequestDone) =>
        /\ Len(sent) = 1
        /\ IF cargs.api_key \in {None_, PyStr("")}
           THEN "Authorization" \notin DOMAIN sent[1].headers
           ELSE /\ "Authorization" \in DOMAIN sent[1].headers
                /\ sent[1].headers["Authorization"] = "Bearer " \o cargs.api_key.s

\* C13 witness: an empty credential, no Authorization header, a normal return
C13_Witness ==
    /\ CurrentRevision /\ op # "request_json" /\ RequestDone
    /\ cargs.api_key = PyStr("")
    /\ "Authorization" \notin DOMAIN sent[1].headers
    /\ result.kind = "return"

\* the entries of a mapping whose value is not None
Supplied(d) == [k \in {j \in DOMAIN d : d[j] # None_} |-> d[k]]

\* C14: map_create issues POST {base}/maps whose JSON body holds exactly the
\* supplied map fields with their values (only title "My Map" gives exactly
\* {"title": "My Map"}), and returns the decoded response.
C14_MapCreateBody ==
    (op \in {"map_create", "legacy_map_create"} /\ RequestDone) =>
        /\ sent[1].method \in {"POST", "post"}
        /\ sent[1].url = cargs.base_url \o "/maps"
        /\ sent[1].json = SomeMap(Supplied(kwargs.kw))
        /\ (Success2xx /\ json_loads(net.body).ok) =>
             result = Returned(json_loads(net.body).jtype, FALSE, net.body)

\* C15: marker_create with a valid payload issues POST {base}/maps/{id}/markers
\* whose JSON body holds lat, lng and every supplied field with its value, and
\* no key for an absent field.
C15_MarkerCreateBody ==
    (op = "marker_create" /\ RequestDone) =>
        /\ sent[1].method = "POST"
        /\ sent[1].url = cargs.base_url \o "/maps/" \o cargs.map_id \o "/markers"
        /\ sent[1].params.isNone
        /\ sent[1].json = SomeMap(Supplied(kwargs.kw))
        /\ {"lat", "lng"} \subseteq DOMAIN sent[1].json.d

\* C15 witness: category_name given, category absent: the body has the one key
\* and not the other
C15_Witness ==
    /\ op = "marker_create" /\ RequestDone
    /\ kwargs.kw["category_name"] = PyStr("Sharks") /\ kwargs.kw["category"] = None_
    /\ sent[1].json.d["category_name"] = PyStr("Sharks")
    /\ "category" \notin DOMAIN sent[1].json.d
    /\ sent[1].json.d["lat"] = kwargs.kw["lat"]

\* C16: the three error kinds reach the caller as raised: a transport failure
\* or timeout comes out of request_json and of every client method as that
\* very error, a non-2xx status as the HTTP status error of that exchange, a
\* failed construction as its validation error; none becomes a return value.
C16_ErrorsPropagateUnmodified ==
    /\ (CurrentRevision /\ RequestDone) =>
         /\ net.kind \in {"ConnectError", "TimeoutException"} =>
              result = Raised(net.kind)
         /\ (net.kind = "response" /\ ~Success2xx) =>
              result = HTTPStatusError(Upper(call.request_type), call.url, net.status)
    /\ (CurrentRevision /\ ConstructDone /\ ~Constructed) =>
         /\ result.kind = "raise" /\ result.exc = "ValidationError"
         /\ result.errs # {}

\* C16 witness: a connection failure came out of the client method map_get
C16_Witness ==
    /\ op = "map_get" /\ via = "lib" /\ RequestDone
    /\ net.kind = "ConnectError"
    /\ result = Raised("ConnectError")

\* the CLI command of the current revision has called the API and has ended
CommandOver == CurrentRevision /\ via = "cli" /\ pc = "exited" /\ call # NoCall

\* C17: every CLI command whose API call returns prints the response and exits
\* with 0; when the API call raises an HTTP status error it prints its error
\* message, no response, and exits with 1 without crashing.
C17_CommandExitCodes ==
    CommandOver =>
        /\ result.kind = "return" => exit = [code |-> 0, out |-> "response"]
        /\ result.exc = "HTTPStatusError" => exit = [code |-> 1, out |-> "error"]

\* C17 witness: `map get` met a 404 and ended on its error path
C17_Witness ==
    /\ CommandOver /\ op = "map_get"
    /\ net.status = 404 /\ result.exc = "HTTPStatusError"
    /\ exit = [code |-> 1, out |-> "error"]

\* C18: whatever classified error (validation, HTTP status, transport or
\* timeout) arises while a CLI command runs, the command ends on its own error
\* path with a non-zero exit code, never with an unhandled exception.
C18_CommandHandlesEveryError ==
    (/\ CurrentRevision /\ via = "cli" /\ pc = "exited"
     /\ result.exc \in {"ValidationError", "HTTPStatusError", "ConnectError",
                        "TimeoutException"}) =>
        exit = [code |-> 1, out |-> "error"]

\* C19: every request request_json dispatches carries the timeout the caller
\* gave, and 10 when the caller gave none.
C19_TimeoutAsGiven ==
    (CurrentRevision /\ RequestDone) =>
        \A i \in 1..Len(sent) :
            sent[i].timeout =
                IF call.timeout = Unspecified THEN PyFloat(10) ELSE call.timeout

\* C19 witness: a request went out with the caller's timeout of 30
C19_Witness ==
    /\ op = "request_json" /\ RequestDone
    /\ call.timeout = PyFloat(30)
    /\ sent[1].timeout = PyFloat(30)

\* the constraints a payload's fields were checked against at construction
ConstraintsHold(p) ==
    /\ p.cls \in {"MarkerCreatePayload", "MarkerLocationPayload"} =>
         /\ p.f["lat"].n \in -90..90
         /\ OtherFieldsValid(p.f)
    /\ p.cls = "MapCreatePayload" =>
         /\ p.f["privacy"] = None_ \/ p.f["privacy"].s \in {"public", "unlisted", "private"}
         /\ \/ p.f["users_can_create_markers"] = None_
            \/ p.f["users_can_create_markers"].s \in {"yes", "no", "only_logged_in"}

\* C20: a constructed payload never changes: every assignment to one of its
\* fields fails and leaves all fields as constructed, so the constraints
\* checked at construction hold as long as the object lives.
C20_PayloadsImmutable ==
    /\ payload # NoPayload =>
         /\ payload = [cls |-> kwargs.cls, f |-> kwargs.kw]
         /\ ConstraintsHold(payload)
    /\ assign # NoAssign =>
         /\ assign.exc = "ValidationError"
         /\ payload = [cls |-> kwargs.cls, f |-> kwargs.kw]

\* C20 witness: an assignment to lat of a marker payload was refused
C20_Witness ==
    /\ payload.cls = "MarkerCreatePayload"
    /\ assign.field = "lat" /\ assign.value = PyFloat(1000)
    /\ assign.exc = "ValidationError"
    /\ payload.f["lat"] = kwargs.kw["lat"]

\* the mapping has the key, with this value
Has(d, k, v) == k \in DOMAIN d /\ d[k] = v

\* C21: MapCreatePayload accepts for privacy only "public", "unlisted",
\* "private" or nothing, and for users_can_create_markers only "yes", "no",
\* "only_logged_in" or nothing; any other value fails at construction with a
\* validation error on that field, and an accepted value is sent as exactly
\* that string.
C21_MapEnumerations ==
    (CurrentRevision /\ ConstructDone /\ kwargs.cls = "MapCreatePayload") =>
        LET p == kwargs.kw["privacy"]
            u == kwargs.kw["users_can_create_markers"]
            pOk == p = None_ \/ p \in {PyStr("public"), PyStr("unlisted"), PyStr("private")}
            uOk == u = None_ \/ u \in {PyStr("yes"), PyStr("no"), PyStr("only_logged_in")}
        IN  /\ Constructed <=> (pOk /\ uOk)
            /\ ~pOk => result.kind = "raise" /\ result.exc = "ValidationError"
                       /\ "privacy:enum" \in result.errs
            /\ ~uOk => result.kind = "raise" /\ result.exc = "ValidationError"
                       /\ "users_can_create_markers:enum" \in result.errs
            /\ ~(pOk /\ uOk) => sent = <<>>
            /\ (Constructed /\ RequestDone) =>
                 /\ p # None_ => Carried(sent[1])["privacy"] = p
                 /\ u # None_ => Carried(sent[1])["users_can_create_markers"] = u
                 /\ p = None_ => "privacy" \notin DOMAIN Carried(sent[1])
                 /\ u = None_ => "users_can_create_markers" \notin DOMAIN Carried(sent[1])

\* C21 witness: an unlisted map on which nobody else may create markers went
\* out with both strings
C21_Witness ==
    /\ op = "map_create" /\ RequestDone
    /\ Has(kwargs.kw, "privacy", PyStr("unlisted"))
    /\ Has(kwargs.kw, "users_can_create_markers", PyStr("no"))
    /\ Has(sent[1].json.d, "privacy", PyStr("unlisted"))
    /\ Has(sent[1].json.d, "users_can_create_markers", PyStr("no"))

\* the endpoints of the Cartes.io API the client covers, as method and path
ListedEndpoints ==
    {<<"GET", "/maps">>, <<"POST", "/maps">>, <<"GET", "/maps/search">>,
     <<"GET", "/maps/{id}">>, <<"PUT", "/maps/{id}">>, <<"DELETE", "/maps/{id}">>,
     <<"GET", "/maps/{id}/images/static">>,
     <<"POST", "/maps/{id}/claim">>, <<"DELETE", "/maps/{id}/claim">>,
     <<"GET", "/maps/{id}/users">>, <<"POST", "/maps/{id}/users">>,
     <<"DELETE", "/maps/{id}/users/{username}">>,
     <<"GET", "/maps/{id}/markers">>, <<"POST", "/maps/{id}/markers">>,
     <<"PUT", "/maps/{id}/markers/{markerId}">>,
     <<"DELETE", "/maps/{id}/markers/{markerId}">>,
     <<"GET", "/maps/{id}/markers/{markerId}/locations">>,
     <<"POST", "/maps/{id}/markers/{markerId}/locations">>,
     <<"GET", "/categories">>, <<"GET", "/categories/search">>,
     <<"GET", "/categories/{id}/related">>,
     <<"GET", "/users">>, <<"GET", "/users/{username}">>,
     <<"GET", "/user">>, <<"PUT", "/user">>}

\* the client operations
ClientOps ==
    PlainOps \cup {"map_list", "map_create", "map_edit", "marker_create",
                   "marker_location_create"}

\* the endpoint each operation is for
EndpointOf(o) ==
    CASE o = "map_list" -> <<"GET", "/maps">>
      [] o = "map_create" -> <<"POST", "/maps">>
      [] o = "map_search" -> <<"GET", "/maps/search">>
      [] o = "map_get" -> <<"GET", "/maps/{id}">>
      [] o = "map_edit" -> <<"PUT", "/maps/{id}">>
      [] o = "map_delete" -> <<"DELETE", "/maps/{id}">>
      [] o = "map_static_image" -> <<"GET", "/maps/{id}/images/static">>
      [] o = "map_claim" -> <<"POST", "/maps/{id}/claim">>
      [] o = "map_unclaim" -> <<"DELETE", "/maps/{id}/claim">>
      [] o = "map_user_list" -> <<"GET", "/maps/{id}/users">>
      [] o = "map_user_add" -> <<"POST", "/maps/{id}/users">>
      [] o = "map_user_delete" -> <<"DELETE", "/maps/{id}/users/{username}">>
      [] o = "marker_list" -> <<"GET", "/maps/{id}/markers">>
      [] o = "marker_create" -> <<"POST", "/maps/{id}/markers">>
      [] o \in {"marker_edit", "marker_spam"} -> <<"PUT", "/maps/{id}/markers/{markerId}">>
      [] o = "marker_delete" -> <<"DELETE", "/maps/{id}/markers/{markerId}">>
      [] o = "marker_location_list" -> <<"GET", "/maps/{id}/markers/{markerId}/locations">>
      [] o = "marker_location_create" ->
           <<"POST", "/maps/{id}/markers/{markerId}/locations">>
      [] o = "category_list" -> <<"GET", "/categories">>
      [] o = "category_search" -> <<"GET", "/categories/search">>
      [] o = "category_related" -> <<"GET", "/categories/{id}/related">>
      [] o = "user_list" -> <<"GET", "/users">>
      [] o = "user_get" -> <<"GET", "/users/{username}">>
      [] o = "me_get" -> <<"GET", "/user">>
      [] o = "me_update" -> <<"PUT", "/user">>

\* each operation is for a listed endpoint and each listed endpoint has its
\* operation
EndpointsMatchOperations ==
    /\ \A o \in ClientOps : EndpointOf(o) \in ListedEndpoints
    /\ \A e \in ListedEndpoints : \E o \in ClientOps : EndpointOf(o) = e

\* a listed path with the identifiers of the current call in their places
Substituted(path) ==
    CASE path \in {"/maps", "/maps/search", "/categories", "/categories/search",
                   "/users", "/user"} -> path
      [] path = "/maps/{id}" -> "/maps/" \o cargs.map_id
      [] path = "/maps/{id}/images/static" -> "/maps/" \o cargs.map_id \o "/images/static"
      [] path = "/maps/{id}/claim" -> "/maps/" \o cargs.map_id \o "/claim"
      [] path = "/maps/{id}/users" -> "/maps/" \o cargs.map_id \o "/users"
      [] path = "/maps/{id}/users/{username}" ->
           "/maps/" \o cargs.map_id \o "/users/" \o kwargs.kw["username"].s
      [] path = "/maps/{id}/markers" -> "/maps/" \o cargs.map_id \o "/markers"
      [] path = "/maps/{id}/markers/{markerId}" ->
           "/maps/" \o cargs.map_id \o "/markers/" \o cargs.marker_id
      [] path = "/maps/{id}/markers/{markerId}/locations" ->
           "/maps/" \o cargs.map_id \o "/markers/" \o cargs.marker_id \o "/locations"
      [] path = "/categories/{id}/related" -> "/categories/3/related"
      [] path = "/users/{username}" -> "/users/" \o kwargs.kw["username"].s

\* C22: every client operation issues its one request with the method of its
\* endpoint to the instance's base_url followed by the endpoint's path, the
\* caller's identifiers substituted unchanged; the endpoint is one of the
\* listed ones, and every listed endpoint is the endpoint of some operation.
C22_EndpointTable ==
    /\ EndpointsMatchOperations
    /\ (CurrentRevision /\ op # "request_json" /\ RequestDone) =>
         /\ op \in ClientOps
         /\ cargs.base_url \in {"https://cartes.io/api", "https://custom.api.com"}
         /\ sent[1].method = EndpointOf(op)[1]
         /\ sent[1].url = cargs.base_url \o Substituted(EndpointOf(op)[2])

\* C22 witness: a client with a base URL of its own removed a user from a map
C22_Witness ==
    /\ op = "map_user_delete" /\ RequestDone
    /\ cargs.base_url = "https://custom.api.com"
    /\ sent[1].method = "DELETE"
    /\ sent[1].url = "https://custom.api.com/maps/m1/users/alice"

\* the API name of each map_list filter
ApiName(f) ==
    CASE f = "ids" -> "ids[]"
      [] f = "category_ids" -> "category_ids[]"
      [] f = "with_relations" -> "with[]"
      [] f = "order_by" -> "orderBy"
      [] f = "response_format" -> "format"
      [] f = "with_mine" -> "withMine"
      [] f = "query" -> "query"

\* the filters a caller of map_list supplied: None for each when the call was
\* made without a MapListParams
MapListGiven ==
    IF kwargs.cls = "MapListParams" THEN kwargs.kw
    ELSE [f \in MapListFields |-> None_]

\* C23 as stated: map_list sends each supplied filter, and only those, under
\* its API name with its supplied value. An empty list of ids is supplied and
\* is not sent.
C23_EverySuppliedFilterSent ==
    (CurrentRevision /\ op = "map_list" /\ RequestDone) =>
        /\ DOMAIN sent[1].params.d =
             {ApiName(f) : f \in {g \in MapListFields : MapListGiven[g] # None_}}
        /\ \A f \in MapListFields :
             MapListGiven[f] # None_ => sent[1].params.d[ApiName(f)] = MapListGiven[f]

\* C23, amended: map_list sends under its API name, with its supplied value,
\* each supplied flag and text filter (with_mine, order_by, query,
\* response_format; False and "" included) and each supplied list filter (ids,
\* category_ids, with_relations) that is not empty; an absent filter and an
\* empty list are not transmitted, and nothing else is.
C23_FiltersUnderApiNames ==
    (CurrentRevision /\ op = "map_list" /\ RequestDone) =>
        LET lists == {"ids", "category_ids", "with_relations"}
            due == {f \in MapListFields :
                      /\ MapListGiven[f] # None_
                      /\ f \in lists => MapListGiven[f].n > 0}
        IN  /\ sent[1].method = "GET" /\ sent[1].json.isNone
            /\ DOMAIN sent[1].params.d = {ApiName(f) : f \in due}
            /\ \A f \in due : sent[1].params.d[ApiName(f)] = MapListGiven[f]

\* C23 witness: with_mine=False went out as withMine=False beside two ids, and
\* no key went out for the absent relations
C23_Witness ==
    /\ op = "map_list" /\ RequestDone
    /\ Has(kwargs.kw, "with_mine", PyBool(FALSE))
    /\ Has(sent[1].params.d, "withMine", PyBool(FALSE))
    /\ Has(sent[1].params.d, "ids[]", PyList(2, "id1,id2"))
    /\ Has(sent[1].params.d, "orderBy", PyStr("created_at"))
    /\ "with[]" \notin DOMAIN sent[1].params.d

\* the operations that take an edit token, with the key it is sent under
MapTokenOps == {"map_edit", "map_delete", "map_claim", "marker_create", "marker_spam"}
MarkerTokenOps == {"marker_edit", "marker_delete", "marker_location_create"}

\* the token the caller gave to the current operation: marker_create takes it
\* inside its payload
TokenGiven ==
    IF op = "marker_create" THEN kwargs.kw["map_token"]
    ELSE IF op \in MapTokenOps THEN cargs.map_token
    ELSE cargs.marker_token

\* C24: edit tokens travel as request parameters, never as headers: map_edit,
\* map_delete, map_claim, marker_create and marker_spam send a supplied map
\* token under map_token, marker_edit, marker_delete and
\* marker_location_create send a supplied marker token under token, and an
\* absent token leaves no key in the request.
C24_TokensAsParameters ==
    (CurrentRevision /\ op \in MapTokenOps \cup MarkerTokenOps /\ RequestDone) =>
        LET key == IF op \in MapTokenOps THEN "map_token" ELSE "token"
            other == IF op \in MapTokenOps THEN "token" ELSE "map_token"
            carried == Carried(sent[1])
        IN  /\ \A h \in DOMAIN sent[1].headers :
                 /\ h \notin {"map_token", "token"}
                 /\ TokenGiven # None_ =>
                      sent[1].headers[h] \notin {TokenGiven.s, "Bearer " \o TokenGiven.s}
            /\ other \notin DOMAIN carried
            /\ IF TokenGiven = None_ THEN key \notin DOMAIN carried
               ELSE key \in DOMAIN carried /\ carried[key] = TokenGiven

\* C24 witness: a marker was deleted with its token in the body and the API
\* key in the header
C24_Witness ==
    /\ op = "marker_delete" /\ RequestDone
    /\ cargs.marker_token = PyStr("tok") /\ cargs.api_key = PyStr("key")
    /\ sent[1].json.d = [token |-> PyStr("tok")]
    /\ Has(sent[1].headers, "Authorization", "Bearer key")

\* C25: when a marker payload supplies both category and category_name,
\* marker_create sends both keys with their supplied values unchanged; it
\* neither drops nor prefers one of them.
C25_BothCategoryKeysSent ==
    (CurrentRevision /\ op = "marker_create" /\ RequestDone
        /\ kwargs.kw["category"] # None_ /\ kwargs.kw["category_name"] # None_) =>
        /\ {"category", "category_name"} \subseteq DOMAIN Carried(sent[1])
        /\ Carried(sent[1])["category"] = kwargs.kw["category"]
        /\ Carried(sent[1])["category_name"] = kwargs.kw["category_name"]

\* C25 witness: category 0 and the name "Sharks" went out together
C25_Witness ==
    /\ op = "marker_create" /\ RequestDone
    /\ Has(sent[1].json.d, "category", PyInt(0))
    /\ Has(sent[1].json.d, "category_name", PyStr("Sharks"))

\* the running invocation has the arguments and the response of the kept one
SameCallAsKept ==
    /\ memo # NoMemo
    /\ memo.op = op /\ memo.cargs = cargs /\ memo.kwargs = kwargs
    /\ op = "request_json" => memo.call = call
    /\ memo.net = net

C27_StatusBeforeBody ==
    (CurrentRevision /\ RequestDone /\ net.kind = "response") =>
        \A b \in Bodies :
          (net.body = b /\ net.status \notin 200..299) =>
             /\ result.kind # "return"
             /\ result = HTTPStatusError(sent[1].method, sent[1].url, net.status)
             /\ result # Returned("object", TRUE, b)
             /\ \A t \in {"object", "array", "string", "number", "null"} :
                  result # Returned(t, FALSE, b)

\* C27 witness: a 404 whose body is not JSON, and a 500 whose body is a JSON
\* object, raised the status error alike
C27_Witness ==
    /\ CurrentRevision /\ RequestDone
    /\ result.kind = "raise" /\ result.exc = "HTTPStatusError"
    /\ \/ net.status = 404 /\ net.body = "<html>"
       \/ net.status = 500 /\ net.body = "{\"id\": 1}"

\* C28: request_json leaves its inputs unchanged: the step that runs it does
\* not alter the caller's params mapping, which keeps its None-valued keys, nor
\* the caller's headers mapping, which gains no default header.
C28_InputsUnchanged ==
    [][(pc = "request" /\ op \notin LegacyOps) =>
          /\ call'.params = call.params
          /\ call'.headers = call.headers
          /\ \A k \in DOMAIN Given(call.params) :
               Given(call.params)[k] = None_ =>
                  k \in DOMAIN Given(call'.params) /\ Given(call'.params)[k] = None_
          /\ DOMAIN Given(call'.headers) = DOMAIN Given(call.headers)]_vars

\* C28 witness: after the call the caller's params still hold a None-valued
\* key that was not sent, and the caller's headers lack the Content-Type that
\* was sent
C28_Witness ==
    /\ op = "request_json" /\ RequestDone
    /\ \E k \in DOMAIN Given(call.params) :
         Given(call.params)[k] = None_ /\ k \notin DOMAIN Carried(sent[1])
    /\ ~call.headers.isNone
    /\ "Content-Type" \notin DOMAIN call.headers.d
    /\ "Content-Type" \in DOMAIN sent[1].headers

\* the error entries that report a value outside its range
RangeErrorEntries ==
    {f \o ":" \o e : f \in MarkerLocationFields,
                     e \in {"greater_than_equal", "less_than_equal", "less_than"}}

\* C29: the bounds of the CLI options agree with the payload constraints:
\* every combination of --lat, --lng, --zoom, --heading, --pitch, --roll,
\* --speed and --elevation that option parsing of marker create and marker
\* location-create accepts is accepted by the payload constructor, so no range
\* error arises after parsing. --speed has no bound in the CLI: --speed -1 is
\* parsed and then refused by MarkerLocationPayload.
C29_CliBoundsAgree ==
    (CurrentRevision /\ via = "cli" /\ cliParse = "accepted" /\ ConstructDone
        /\ kwargs.cls \in {"MarkerCreatePayload", "MarkerLocationPayload"}) =>
        \/ Constructed
        \/ result.kind = "raise" /\ result.exc = "ValidationError"
           /\ result.errs \cap RangeErrorEntries = {}

\* C30: a PUT, POST or DELETE request always carries a JSON object as its
\* body, the empty object {} when the operation has no parameters or only
\* absent ones (map_unclaim, map_user_delete), never a missing body; a GET
\* without parameters carries an empty set of query parameters.
C30_BodyAlwaysPresent ==
    (CurrentRevision /\ RequestDone) =>
        LET nothingGiven == \A k \in DOMAIN Given(call.params) : Given(call.params)[k] = None_
        IN  IF sent[1].method \in {"PUT", "POST", "DELETE"}
            THEN /\ ~sent[1].json.isNone
                 /\ nothingGiven => sent[1].json.d = EmptyDict
                 /\ op \in {"map_unclaim", "map_user_delete"} => sent[1].json.d = EmptyDict
            ELSE /\ sent[1].method = "GET"
                 /\ ~sent[1].params.isNone
                 /\ nothingGiven => sent[1].params.d = EmptyDict

\* C30 witness: map_unclaim, which passes no parameters, sent DELETE with the
\* body {}
C30_Witness ==
    /\ op = "map_unclaim" /\ RequestDone
    /\ call.params.isNone
    /\ sent[1].method = "DELETE"
    /\ sent[1].json = SomeMap(EmptyDict)
    /\ sent[1].params.isNone

====
